---- MODULE Spec2Model ----
(***************************************************************************)
(* A model of scipy.sparse.lil.lil_matrix (src/scipy/sparse/lil.py): the   *)
(* row-based list-of-lists sparse matrix, its element and fancy-indexed    *)
(* reads and writes, its slice resolution, its conversion to CSR arrays,   *)
(* reshape, and the sharing of row lists between matrices.                 *)
(*                                                                         *)
(* Python lists and numpy arrays are sequences (a Python position p is the *)
(* index p + 1 here); 2-D arrays are sequences of rows.  Python list       *)
(* objects live in `heap`, so that two matrices can hold the same list.    *)
(* An exception is the string naming it in an `err` field; "ok" is none.   *)
(***************************************************************************)
EXTENDS Integers, Sequences, FiniteSets, TLC

VARIABLES heap, self, other, call

vars == <<heap, self, other, call>>

(***************************************************************************)
(* Bounds of the model.                                                    *)
(***************************************************************************)
MaxM == 2
MaxN == 2
MaxCells == 4
MaxVal == 2
MaxSharedCells == 2
MaxSharedVal == 1

\* The shapes a matrix is constructed with: lil_matrix((M, N)).
Shapes == {s \in (1..MaxM) \X (1..MaxN) : s[1] * s[2] <= MaxCells}

\* The element values (of the matrix dtype); 0 is the additive identity.
Values == 0..MaxVal

(***************************************************************************)
(* Python / numpy helpers.                                                 *)
(***************************************************************************)
None == <<>>
Some(v) == <<v>>

Max2(a, b) == IF a >= b THEN a ELSE b

\* Python's floor division for a positive divisor.
FloorDiv(a, b) == a \div b

\* list(range(start, stop, step)), step # 0.
range(start, stop, step) ==
  LET n == IF step > 0
           THEN Max2(0, FloorDiv(stop - start + step - 1, step))
           ELSE Max2(0, FloorDiv(start - stop - step - 1, -step))
  IN [k \in 1..n |-> start + (k - 1) * step]

\* list.insert(pos, v), list.append(v) and `del list[pos]`, pos a Python position.
list_insert(l, pos, v) == SubSeq(l, 1, pos) \o <<v>> \o SubSeq(l, pos + 1, Len(l))
list_append(l, v) == Append(l, v)
list_del(l, pos) == SubSeq(l, 1, pos) \o SubSeq(l, pos + 2, Len(l))

\* bisect.bisect_left(a, x): the binary search of the standard library.
RECURSIVE bisect_loop(_, _, _, _)
bisect_loop(a, x, lo, hi) ==
  IF lo < hi
  THEN LET mid == (lo + hi) \div 2
       IN IF a[mid + 1] < x THEN bisect_loop(a, x, mid + 1, hi)
                            ELSE bisect_loop(a, x, lo, mid)
  ELSE lo

bisect_left(a, x) == bisect_loop(a, x, 0, Len(a))

\* The shape of a 2-D array.
shape_of(a) == <<Len(a), IF Len(a) = 0 THEN 0 ELSE Len(a[1])>>

\* a.ravel(): the rows of a 2-D array one after the other.
RECURSIVE ravel(_)
ravel(a) == IF a = <<>> THEN <<>> ELSE a[1] \o ravel(Tail(a))

\* v * np.ones(shape, dtype=int)
full_of(shape, v) == [r \in 1..shape[1] |-> [c \in 1..shape[2] |-> v]]

\* np.vstack([a] * n) for a 2-D array a.
RECURSIVE vstack(_, _)
vstack(a, n) == IF n <= 0 THEN <<>> ELSE a \o vstack(a, n - 1)

\* np.outer(i, np.ones(n, dtype=int)) for a 1-D i.
outer_ones(i, n) == [r \in 1..Len(i) |-> [c \in 1..n |-> i[r]]]

\* Indexing a numpy array of length n with the integer k: the Python
\* position, or -1 for an IndexError.
np_index(k, n) == IF k >= 0 /\ k < n THEN k
                  ELSE IF k < 0 /\ k + n >= 0 THEN k + n
                  ELSE -1

(***************************************************************************)
(* Index expressions and right-hand sides.                                 *)
(*   an integer      [t |-> "int", v]                                      *)
(*   a slice         [t |-> "slice", start, stop, step], each None or Some *)
(*   a list / array  [t |-> "arr", a, nd]: the array as np.atleast_2d      *)
(*                   gives it, and its own number of dimensions            *)
(*   a right-hand side [k |-> "scalar" | "dense" | "sparse", a]: a is      *)
(*                   np.atleast_2d of a scalar or dense x, x.toarray() of  *)
(*                   a sparse x                                            *)
(***************************************************************************)
IntIdx(v) ==
  [t |-> "int", v |-> v, start |-> None, stop |-> None, step |-> None,
   a |-> <<>>, nd |-> 0]
SliceIdx(start, stop, step) ==
  [t |-> "slice", v |-> 0, start |-> start, stop |-> stop, step |-> step,
   a |-> <<>>, nd |-> 0]
ArrIdx(a, nd) ==
  [t |-> "arr", v |-> 0, start |-> None, stop |-> None, step |-> None,
   a |-> a, nd |-> nd]

Scalar(v) == [k |-> "scalar", a |-> <<<<v>>>>]
Dense(a) == [k |-> "dense", a |-> a]
SparseX(a) == [k |-> "sparse", a |-> a]

isinstance_slice(i) == i.t = "slice"
isspmatrix(x) == x.k = "sparse"

\* np.atleast_2d(i) and np.atleast_1d(i).ravel() of a non-slice index part.
atleast_2d(i) == IF i.t = "int" THEN <<<<i.v>>>> ELSE i.a
atleast_1d_ravel(i) == IF i.t = "int" THEN <<i.v>> ELSE ravel(i.a)
ndim_1d(i) == IF i.t = "int" THEN 1 ELSE i.nd

\* lil_matrix._slicetoseq(j, shape)
_slicetoseq(j, shape) ==
  LET step == IF j.step = None \/ j.step = Some(0) THEN 1 ELSE j.step[1]
      start == IF j.start # None /\ j.start[1] < 0 THEN shape + j.start[1]
               ELSE IF j.start = None
                    THEN (IF step > 0 THEN 0 ELSE shape)
                    ELSE j.start[1]
      stop == IF j.stop # None /\ j.stop[1] < 0 THEN shape + j.stop[1]
              ELSE IF j.stop = None
                   THEN (IF step > 0 THEN shape ELSE -1)
                   ELSE j.stop[1]
  IN range(start, stop, step)

\* "Make i and j into same shape": the branch of __getitem__ and __setitem__
\* for an index without a slice.
broadcast_ij(i, j) ==
  LET i2 == atleast_2d(i)
      j2 == atleast_2d(j)
      si == shape_of(i2)
      sj == shape_of(j2)
      ok(I, J) == [I |-> I, J |-> J, err |-> "ok", empty |-> FALSE]
      bad == [I |-> <<>>, J |-> <<>>, err |-> "ValueError", empty |-> FALSE]
  IN IF sj = si THEN ok(i2, j2)
     ELSE IF si = <<1, 1>> THEN ok(full_of(sj, i2[1][1]), j2)
     ELSE IF sj = <<1, 1>> THEN ok(i2, full_of(si, j2[1][1]))
     ELSE IF si[2] = sj[2]
          THEN IF si[1] = 1 THEN ok(vstack(i2, sj[1]), j2)
               ELSE IF sj[1] = 1 THEN ok(i2, vstack(j2, si[1]))
               ELSE bad
     ELSE bad

\* The index arrays of __setitem__: [I, J, err, empty]; empty is the early
\* return for a slice that expands to nothing.
setitem_index(mat, i, j) ==
  IF isinstance_slice(i) \/ isinstance_slice(j)
  THEN LET iseq == IF isinstance_slice(i) THEN _slicetoseq(i, mat.shape[1])
                   ELSE atleast_1d_ravel(i)
           jseq == IF isinstance_slice(j) THEN _slicetoseq(j, mat.shape[2])
                   ELSE atleast_1d_ravel(j)
       IN IF isinstance_slice(i) /\ iseq = <<>>
          THEN [I |-> <<>>, J |-> <<>>, err |-> "ok", empty |-> TRUE]
          ELSE IF isinstance_slice(j) /\ jseq = <<>>
          THEN [I |-> <<>>, J |-> <<>>, err |-> "ok", empty |-> TRUE]
          ELSE [I |-> outer_ones(iseq, Len(jseq)),
                J |-> vstack(<<jseq>>, Len(iseq)),
                err |-> "ok", empty |-> FALSE]
  ELSE broadcast_ij(i, j)

\* The index arrays of __getitem__: as for __setitem__, but an index array of
\* more than one dimension beside a slice is an IndexError.
getitem_index(mat, i, j) ==
  IF isinstance_slice(i) \/ isinstance_slice(j)
  THEN LET iseq == IF isinstance_slice(i) THEN _slicetoseq(i, mat.shape[1])
                   ELSE atleast_1d_ravel(i)
           jseq == IF isinstance_slice(j) THEN _slicetoseq(j, mat.shape[2])
                   ELSE atleast_1d_ravel(j)
       IN IF isinstance_slice(i) /\ iseq = <<>>
          THEN [I |-> <<>>, J |-> <<>>, err |-> "ok", empty |-> TRUE]
          ELSE IF isinstance_slice(j) /\ jseq = <<>>
          THEN [I |-> <<>>, J |-> <<>>, err |-> "ok", empty |-> TRUE]
          ELSE IF (~isinstance_slice(i) /\ ndim_1d(i) > 1)
                  \/ (~isinstance_slice(j) /\ ndim_1d(j) > 1)
          THEN [I |-> <<>>, J |-> <<>>, err |-> "IndexError", empty |-> FALSE]
          ELSE [I |-> outer_ones(iseq, Len(jseq)),
                J |-> vstack(<<jseq>>, Len(iseq)),
                err |-> "ok", empty |-> FALSE]
  ELSE broadcast_ij(i, j)

(***************************************************************************)
(* A matrix value: [shape, rows, data], rows and data the sequences of the *)
(* row lists.                                                              *)
(***************************************************************************)

\* lil_matrix((M, N)): the empty matrix.
empty_matrix(shape) ==
  [shape |-> shape,
   rows |-> [r \in 1..shape[1] |-> <<>>],
   data |-> [r \in 1..shape[1] |-> <<>>]]

\* _get1 without the wraparound of a negative column index.
_get1_nowrap(mat, i, j) ==
  LET i1 == IF i < 0 THEN i + mat.shape[1] ELSE i
  IN IF i1 < 0 \/ i1 >= mat.shape[1] THEN [v |-> 0, err |-> "IndexError"]
     ELSE IF j < 0 \/ j >= mat.shape[2] THEN [v |-> 0, err |-> "IndexError"]
     ELSE IF i1 >= Len(mat.rows) THEN [v |-> 0, err |-> "IndexError"]
     ELSE LET row == mat.rows[i1 + 1]
              data == mat.data[i1 + 1]
              pos == bisect_left(row, j)
          IN IF pos # Len(data) /\ row[pos + 1] = j
             THEN [v |-> data[pos + 1], err |-> "ok"]
             ELSE [v |-> 0, err |-> "ok"]

\* lil_matrix._get1(i, j): [v, err]
_get1(mat, i, j) ==
  LET i1 == IF i < 0 THEN i + mat.shape[1] ELSE i
      j1 == IF j < 0 THEN j + mat.shape[2] ELSE j
  IN IF i1 < 0 \/ i1 >= mat.shape[1] THEN [v |-> 0, err |-> "IndexError"]
     ELSE IF j1 < 0 \/ j1 >= mat.shape[2] THEN [v |-> 0, err |-> "IndexError"]
     ELSE IF i1 >= Len(mat.rows) THEN [v |-> 0, err |-> "IndexError"]
     ELSE LET row == mat.rows[i1 + 1]
              data == mat.data[i1 + 1]
              pos == bisect_left(row, j1)
          IN IF pos # Len(data) /\ row[pos + 1] = j1
             THEN [v |-> data[pos + 1], err |-> "ok"]
             ELSE [v |-> 0, err |-> "ok"]

\* _insertat2 that inserts a nonzero x without looking for the column in
\* the row first.
_insertat2_dup(mat, row, data, j, x) ==
  LET j1 == IF j < 0 THEN j + mat.shape[2] ELSE j
      same(e) == [row |-> row, data |-> data, err |-> e]
  IN IF j1 < 0 \/ j1 >= mat.shape[2] THEN same("IndexError")
     ELSE LET pos == bisect_left(row, j1)
          IN IF x # 0
             THEN [row |-> list_insert(row, pos, j1),
                   data |-> list_insert(data, pos, x), err |-> "ok"]
             ELSE IF pos < Len(row) /\ row[pos + 1] = j1
                  THEN [row |-> list_del(row, pos),
                        data |-> list_del(data, pos), err |-> "ok"]
                  ELSE same("ok")

\* _insertat2 without the branch for x = 0: a zero is stored like any value.
_insertat2_keepzero(mat, row, data, j, x) ==
  LET j1 == IF j < 0 THEN j + mat.shape[2] ELSE j
      same(e) == [row |-> row, data |-> data, err |-> e]
  IN IF j1 < 0 \/ j1 >= mat.shape[2] THEN same("IndexError")
     ELSE LET pos == bisect_left(row, j1)
          IN IF pos = Len(row)
             THEN [row |-> list_append(row, j1),
                   data |-> list_append(data, x), err |-> "ok"]
             ELSE IF row[pos + 1] # j1
             THEN [row |-> list_insert(row, pos, j1),
                   data |-> list_insert(data, pos, x), err |-> "ok"]
             ELSE [row |-> row,
                   data |-> [data EXCEPT ![pos + 1] = x], err |-> "ok"]

\* lil_matrix._insertat2(row, data, j, x): [row, data, err].  x is a scalar
\* of the matrix dtype here, so the checks of lines 301-307 pass.
_insertat2(mat, row, data, j, x) ==
  LET j1 == IF j < 0 THEN j + mat.shape[2] ELSE j
      same(e) == [row |-> row, data |-> data, err |-> e]
  IN IF j1 < 0 \/ j1 >= mat.shape[2] THEN same("IndexError")
     ELSE LET pos == bisect_left(row, j1)
          IN IF x # 0
             THEN IF pos = Len(row)
                  THEN [row |-> list_append(row, j1),
                        data |-> list_append(data, x), err |-> "ok"]
                  ELSE IF row[pos + 1] # j1
                  THEN [row |-> list_insert(row, pos, j1),
                        data |-> list_insert(data, pos, x), err |-> "ok"]
                  ELSE [row |-> row,
                        data |-> [data EXCEPT ![pos + 1] = x], err |-> "ok"]
             ELSE IF pos < Len(row) /\ row[pos + 1] = j1
                  THEN [row |-> list_del(row, pos),
                        data |-> list_del(data, pos), err |-> "ok"]
                  ELSE same("ok")

\* for ii, jj, xx in zip(I, J, X): self._insertat2(self.rows[ii],
\* self.data[ii], jj, xx), from the k-th triple on: [mat, err].  An exception
\* ends the loop and keeps what was written before it.
RECURSIVE insert_each(_, _, _, _, _)
insert_each(mat, I, J, X, k) ==
  IF k > Len(I) \/ k > Len(J) \/ k > Len(X) THEN [mat |-> mat, err |-> "ok"]
  ELSE LET r == np_index(I[k], Len(mat.rows))
       IN IF r < 0 THEN [mat |-> mat, err |-> "IndexError"]
          ELSE LET res == _insertat2(mat, mat.rows[r + 1], mat.data[r + 1],
                                     J[k], X[k])
               IN IF res.err # "ok" THEN [mat |-> mat, err |-> res.err]
                  ELSE insert_each([mat EXCEPT !.rows[r + 1] = res.row,
                                               !.data[r + 1] = res.data],
                                   I, J, X, k + 1)

\* The loop of lines 381-383 for a sparse x of shape (1, 1): the column
\* handed to _insertat2 is j[jj], row jj of the 2-D array j, not jj.  An
\* array of more than one element has no truth value (ValueError at
\* `if j < 0`); an array of one element acts as that element, and
\* `j += self.shape[1]` adds in place, into the array the loop reads from.
RECURSIVE insert_each_jrow(_, _, _, _, _)
insert_each_jrow(mat, I, J2, x00, k) ==
  IF k > Len(I) \/ k > Len(ravel(J2)) THEN [mat |-> mat, err |-> "ok"]
  ELSE LET jj == ravel(J2)[k]
           r == np_index(I[k], Len(mat.rows))
           q == np_index(jj, Len(J2))
       IN IF r < 0 \/ q < 0 THEN [mat |-> mat, err |-> "IndexError"]
          ELSE IF Len(J2[q + 1]) # 1 THEN [mat |-> mat, err |-> "ValueError"]
          ELSE LET jv == J2[q + 1][1]
                   res == _insertat2(mat, mat.rows[r + 1], mat.data[r + 1],
                                     jv, x00)
                   J3 == IF jv < 0
                         THEN [J2 EXCEPT ![q + 1] = <<jv + mat.shape[2]>>]
                         ELSE J2
               IN IF res.err # "ok" THEN [mat |-> mat, err |-> res.err]
                  ELSE insert_each_jrow([mat EXCEPT !.rows[r + 1] = res.row,
                                                   !.data[r + 1] = res.data],
                                        I, J3, x00, k + 1)

(***************************************************************************)
(* __setitem__, __getitem__, tocsr, reshape on matrix values.              *)
(***************************************************************************)

\* The rows and data lists of a sparse matrix with the dense content a, as
\* lil_matrix(x, dtype=self.dtype) gives them: x.tolil().astype(dtype) is a
\* fresh matrix of x's shape holding x's nonzero entries, row by row.
RECURSIVE nonzero_cols(_, _)
nonzero_cols(r, c) ==
  IF c > Len(r) THEN <<>>
  ELSE (IF r[c] # 0 THEN <<c - 1>> ELSE <<>>) \o nonzero_cols(r, c + 1)

RECURSIVE nonzero_vals(_, _)
nonzero_vals(r, c) ==
  IF c > Len(r) THEN <<>>
  ELSE (IF r[c] # 0 THEN <<r[c]>> ELSE <<>>) \o nonzero_vals(r, c + 1)

astype_lil(x) ==
  [shape |-> shape_of(x.a),
   rows |-> [r \in 1..Len(x.a) |-> nonzero_cols(x.a[r], 1)],
   data |-> [r \in 1..Len(x.a) |-> nonzero_vals(x.a[r], 1)]]

\* The shortcut of lines 335-340: a sparse x written to [:, :].
is_full_assign(i, j, x) ==
  /\ isspmatrix(x)
  /\ isinstance_slice(i) /\ i = SliceIdx(None, None, None)
  /\ isinstance_slice(j) /\ j = SliceIdx(None, None, None)

\* Lines 379-397: a sparse x.
setitem_sparse(mat, I, J, x) ==
  IF shape_of(x.a) = <<1, 1>>
  THEN insert_each_jrow(mat, ravel(I), J, x.a[1][1], 1)
  ELSE IF shape_of(x.a) = shape_of(I)
  THEN insert_each(mat, ravel(I), ravel(J), ravel(x.a), 1)
  ELSE IF shape_of(x.a)[2] = shape_of(I)[2] /\ shape_of(x.a)[1] = 1
  THEN [mat |-> mat, err |-> "AttributeError"]   \* np.concatenat
  ELSE [mat |-> mat, err |-> "ValueError"]

\* Lines 399-416: a scalar or dense x.
setitem_dense(mat, I, J, x) ==
  IF shape_of(x.a) = <<1, 1>>
  THEN insert_each(mat, ravel(I), ravel(J),
                   [k \in 1..Len(ravel(I)) |-> x.a[1][1]], 1)
  ELSE IF shape_of(I) = shape_of(x.a)
  THEN insert_each(mat, ravel(I), ravel(J), ravel(x.a), 1)
  ELSE IF shape_of(x.a)[2] = shape_of(I)[2] /\ shape_of(x.a)[1] = 1
  THEN insert_each(mat, ravel(I), ravel(J),
                   ravel(vstack(x.a, shape_of(I)[1])), 1)
  ELSE [mat |-> mat, err |-> "ValueError"]

\* lil_matrix.__setitem__((i, j), x): [mat, err, rebound]; rebound says that
\* self.rows and self.data were assigned new arrays (the shortcut) rather
\* than the row lists changed in place.
__setitem__(mat, i, j, x) ==
  IF is_full_assign(i, j, x)
  THEN [mat |-> [shape |-> mat.shape,
                 rows |-> astype_lil(x).rows,
                 data |-> astype_lil(x).data],
        err |-> "ok", rebound |-> TRUE]
  ELSE LET idx == setitem_index(mat, i, j)
       IN IF idx.err # "ok" \/ idx.empty
          THEN [mat |-> mat, err |-> idx.err, rebound |-> FALSE]
          ELSE LET res == IF isspmatrix(x)
                          THEN setitem_sparse(mat, idx.I, idx.J, x)
                          ELSE setitem_dense(mat, idx.I, idx.J, x)
               IN [mat |-> res.mat, err |-> res.err, rebound |-> FALSE]

\* [[self._get1(i[ii, jj], j[ii, jj]) for jj ...] for ii ...]: the values, and
\* the first exception.
get_each(mat, I, J) ==
  LET g(r, c) == _get1(mat, I[r][c], J[r][c])
      bad == {<<r, c>> \in (1..Len(I)) \X (1..shape_of(I)[2]) :
                g(r, c).err # "ok"}
  IN [a |-> [r \in 1..Len(I) |-> [c \in 1..Len(I[r]) |-> g(r, c).v]],
      err |-> IF bad = {} THEN "ok" ELSE "IndexError"]

\* lil_matrix.__getitem__((i, j)): [kind, v, a, err]; kind is "scalar" (v),
\* "matrix" (a new matrix with the content a) or "none" (the bare return for
\* an empty slice).
__getitem__(mat, i, j) ==
  LET idx == getitem_index(mat, i, j)
      slicemat == isinstance_slice(i) \/ isinstance_slice(j)
      fail(e) == [kind |-> "none", v |-> 0, a |-> <<>>, err |-> e]
  IN IF idx.err # "ok" THEN fail(idx.err)
     ELSE IF idx.empty THEN fail("ok")
     ELSE IF shape_of(idx.I) = <<1, 1>> /\ ~slicemat
     THEN LET g == _get1(mat, idx.I[1][1], idx.J[1][1])
          IN IF g.err # "ok" THEN fail(g.err)
             ELSE [kind |-> "scalar", v |-> g.v, a |-> <<>>, err |-> "ok"]
     ELSE LET g == get_each(mat, idx.I, idx.J)
          IN IF g.err # "ok" THEN fail(g.err)
             ELSE [kind |-> "matrix", v |-> 0, a |-> g.a, err |-> "ok"]

\* np.cumsum
RECURSIVE cumsum(_, _, _)
cumsum(l, k, acc) ==
  IF k > Len(l) THEN <<>> ELSE <<acc + l[k]>> \o cumsum(l, k + 1, acc + l[k])

\* for x in lists: out.extend(x)
RECURSIVE extend_all(_)
extend_all(lists) ==
  IF lists = <<>> THEN <<>> ELSE lists[1] \o extend_all(Tail(lists))

\* tocsr without the leading 0 of indptr.
tocsr_nozero(mat) ==
  [indptr |-> cumsum([r \in 1..Len(mat.rows) |-> Len(mat.rows[r])], 1, 0),
   indices |-> extend_all(mat.rows),
   data |-> extend_all(mat.data),
   shape |-> mat.shape]

\* lil_matrix.tocsr(): the arrays handed to csr_matrix.
tocsr(mat) ==
  [indptr |-> <<0>> \o cumsum([r \in 1..Len(mat.rows) |-> Len(mat.rows[r])], 1, 0),
   indices |-> extend_all(mat.rows),
   data |-> extend_all(mat.data),
   shape |-> mat.shape]

\* The entries of a matrix in the order reshape walks them: <<i, j>> pairs.
RECURSIVE entries_of(_, _)
entries_of(mat, r) ==
  IF r > Len(mat.rows) THEN <<>>
  ELSE [c \in 1..Len(mat.rows[r]) |-> <<r - 1, mat.rows[r][c]>>]
       \o entries_of(mat, r + 1)

\* The loop of lil_matrix.reshape from the k-th entry on: [mat, err].
\* np.unravel_index raises ValueError for a flat index outside the shape.
RECURSIVE reshape_each(_, _, _, _, _)

\* new[new_r, new_c] = self[i, j], then the rest of the loop.
reshape_put(mat, new, shape, ents, k, put) ==
  IF put.err # "ok" THEN [mat |-> new, err |-> put.err]
  ELSE reshape_each(mat, put.mat, shape, ents, k + 1)

reshape_get(mat, new, shape, ents, k, flat, got) ==
  IF got.err # "ok" THEN [mat |-> new, err |-> got.err]
  ELSE reshape_put(mat, new, shape, ents, k,
                   __setitem__(new, IntIdx(flat \div shape[2]),
                               IntIdx(flat % shape[2]), Scalar(got.v)))

reshape_at(mat, new, shape, ents, k, flat) ==
  IF flat < 0 \/ flat >= shape[1] * shape[2]
  THEN [mat |-> new, err |-> "ValueError"]
  ELSE reshape_get(mat, new, shape, ents, k, flat,
                   __getitem__(mat, IntIdx(ents[k][1]), IntIdx(ents[k][2])))

reshape_each(mat, new, shape, ents, k) ==
  IF k > Len(ents) THEN [mat |-> new, err |-> "ok"]
  ELSE reshape_at(mat, new, shape, ents, k,
                  ents[k][1] * mat.shape[2] + ents[k][2])

\* lil_matrix.reshape(shape): [mat, err], mat the matrix returned.
reshape(mat, shape) ==
  reshape_each(mat, empty_matrix(shape), shape, entries_of(mat, 1), 1)

(***************************************************************************)
(* Objects.  A lil_matrix object is [live, shape, rows, data]: rows and    *)
(* data are the object arrays self.rows and self.data, sequences of the    *)
(* addresses of Python lists; heap maps an address to the list's content.  *)
(* No operation assigns to an element of an existing object array, so an   *)
(* object array is held by value.  A list no matrix refers to is garbage:  *)
(* its address is free again and its content is reset.                     *)
(***************************************************************************)
Addrs == 1..(6 * MaxM)

no_matrix == [live |-> FALSE, shape |-> <<0, 0>>, rows |-> <<>>, data |-> <<>>]

\* The matrix value an object denotes in heap h.
deref(h, m) ==
  [shape |-> m.shape,
   rows |-> [r \in 1..Len(m.rows) |-> h[m.rows[r]]],
   data |-> [r \in 1..Len(m.data) |-> h[m.data[r]]]]

refs(m) == {m.rows[r] : r \in 1..Len(m.rows)} \cup {m.data[r] : r \in 1..Len(m.data)}

\* The k-th free address, in increasing order.
fresh(used, k) ==
  CHOOSE a \in Addrs \ used : Cardinality({b \in Addrs \ used : b < a}) = k - 1

\* A new object holding the matrix value v in newly created lists, and the
\* heap with them: [m, h].
allocate(h, used, v) ==
  LET n == Len(v.rows)
      m == [live |-> TRUE, shape |-> v.shape,
            rows |-> [r \in 1..n |-> fresh(used, r)],
            data |-> [r \in 1..n |-> fresh(used, n + r)]]
  IN [m |-> m,
      h |-> [a \in Addrs |->
               IF \E r \in 1..n : m.rows[r] = a
               THEN v.rows[CHOOSE r \in 1..n : m.rows[r] = a]
               ELSE IF \E r \in 1..n : m.data[r] = a
               THEN v.data[CHOOSE r \in 1..n : m.data[r] = a]
               ELSE h[a]]]

\* The heap after the lists of object m were changed in place to hold v.
mutate(h, m, v) ==
  [a \in Addrs |->
     IF \E r \in 1..Len(m.rows) : m.rows[r] = a
     THEN v.rows[CHOOSE r \in 1..Len(m.rows) : m.rows[r] = a]
     ELSE IF \E r \in 1..Len(m.data) : m.data[r] = a
     THEN v.data[CHOOSE r \in 1..Len(m.data) : m.data[r] = a]
     ELSE h[a]]

\* Garbage collection: lists that no matrix refers to are gone.
collect(h, m1, m2) ==
  [a \in Addrs |-> IF a \in refs(m1) \cup refs(m2) THEN h[a] ELSE <<>>]

\* copy without the deepcopy: the new object takes the lists of the old one.
copy_shallow(h, used, m) == [m |-> m, h |-> h]

\* lil_matrix.copy(): deepcopy of rows and data into a new object: [m, h].
copy(h, used, m) == allocate(h, used, deref(h, m))

\* lil_matrix.tolil(copy): the object itself unless copy is asked for.
tolil(h, used, m, cp) ==
  IF cp THEN copy(h, used, m) ELSE [m |-> m, h |-> h]

\* lil_matrix(arg1, copy=cp) for a lil_matrix arg1 and no dtype: the new
\* object takes the shape, rows and data of A = arg1.copy() or arg1.tolil().
construct_from(h, used, arg1, cp) ==
  LET A == IF cp THEN copy(h, used, arg1) ELSE tolil(h, used, arg1, FALSE)
  IN [m |-> [live |-> TRUE, shape |-> A.m.shape,
             rows |-> A.m.rows, data |-> A.m.data],
      h |-> A.h]

\* __setitem__ on the object m: [m, h, err].  The shortcut binds self.rows
\* and self.data to the arrays of a new matrix (al); every other write
\* changes the row lists in place.
rebind(m, al, err) ==
  [m |-> [m EXCEPT !.rows = al.m.rows, !.data = al.m.data],
   h |-> al.h, err |-> err]

setitem_store(h, used, m, res) ==
  IF res.rebound
  THEN rebind(m, allocate(h, used, res.mat), res.err)
  ELSE [m |-> m, h |-> mutate(h, m, res.mat), err |-> res.err]

setitem_object(h, used, m, i, j, x) ==
  setitem_store(h, used, m, __setitem__(deref(h, m), i, j, x))

(***************************************************************************)
(* The inputs of the operations.                                           *)
(***************************************************************************)
IntParts(E) == {IntIdx(v) : v \in (0 - E - 1)..E}

SliceParts(E) ==
  {SliceIdx(None, None, None), SliceIdx(Some(-1), None, None),
   SliceIdx(None, None, Some(-1)), SliceIdx(Some(0), Some(1), None),
   SliceIdx(None, Some(-1), None), SliceIdx(None, None, Some(2))}
  \cup (IF E >= 2 THEN {SliceIdx(Some(-2), None, None)} ELSE {})

ArrParts(E) ==
  {ArrIdx(<<<<0, E - 1>>>>, 1), ArrIdx(<<<<E - 1, 0>>>>, 1),
   ArrIdx(<<<<0>>, <<E - 1>>>>, 2)}

IdxParts(E) == IntParts(E) \cup SliceParts(E) \cup ArrParts(E)

idle == [op |-> "idle"]

(***************************************************************************)
(* The operations on self with a scalar right-hand side.                   *)
(***************************************************************************)
Init ==
  \E s \in Shapes :
    LET al == allocate([a \in Addrs |-> <<>>], {}, empty_matrix(s))
    IN /\ heap = al.h
       /\ self = al.m
       /\ other = no_matrix
       /\ call = idle

\* self[i, j] = x for a scalar x.
SetItemDone(res, i, j, x) ==
  /\ self' = res.m
  /\ heap' = collect(res.h, res.m, other)
  /\ call' = [op |-> "setitem", i |-> i, j |-> j, x |-> x,
              err |-> res.err, pre |-> deref(heap, self)]
  /\ UNCHANGED other

SetItem ==
  /\ call = idle
  /\ \E i \in IdxParts(self.shape[1]), j \in IdxParts(self.shape[2]), v \in Values :
       SetItemDone(setitem_object(heap, refs(self) \cup refs(other), self,
                                  i, j, Scalar(v)),
                   i, j, Scalar(v))

\* self[i, j]
GetItem ==
  /\ call = idle
  /\ \E i \in IdxParts(self.shape[1]), j \in IdxParts(self.shape[2]) :
       call' = [op |-> "getitem", i |-> i, j |-> j,
                out |-> __getitem__(deref(heap, self), i, j)]
  /\ UNCHANGED <<heap, self, other>>

\* self.tocsr()
ToCsr ==
  /\ call = idle
  /\ call' = [op |-> "tocsr", out |-> tocsr(deref(heap, self)),
              pre |-> deref(heap, self)]
  /\ UNCHANGED <<heap, self, other>>

\* self.reshape(shape); the matrix returned is dropped by the caller.
Reshape ==
  /\ call = idle
  /\ \E s \in (1..MaxM) \X (1..MaxN) :
       call' = [op |-> "reshape", shape |-> s,
                out |-> reshape(deref(heap, self), s)]
  /\ UNCHANGED <<heap, self, other>>

\* The caller is done with the result of the call.
Return ==
  /\ call # idle
  /\ call' = idle
  /\ UNCHANGED <<heap, self, other>>

Next == SetItem \/ GetItem \/ ToCsr \/ Reshape \/ Return

Spec == Init /\ [][Next]_vars

(***************************************************************************)
(* What the properties speak of.                                           *)
(***************************************************************************)

\* The matrix self denotes now.
now == deref(heap, self)

\* Whether the matrix value m stores the coordinate (r, c), and the value it
\* holds there, read off the lists (r, c count from 0).
stored(m, r, c) == \E k \in 1..Len(m.rows[r + 1]) : m.rows[r + 1][k] = c
value_at(m, r, c) ==
  IF stored(m, r, c)
  THEN m.data[r + 1][CHOOSE k \in 1..Len(m.rows[r + 1]) : m.rows[r + 1][k] = c]
  ELSE 0

\* An integer index valid on a dimension of extent E, and the coordinate it
\* names after one wraparound.
valid_int(p, E) == p.t = "int" /\ p.v >= 0 - E /\ p.v < E
wrapped(v, E) == IF v < 0 THEN v + E ELSE v

\* The last call was self[i, j] = x with integers i, j valid for the shape.
is_set == call.op = "setitem" /\ valid_int(call.i, self.shape[1])
                              /\ valid_int(call.j, self.shape[2])
set_r == wrapped(call.i.v, self.shape[1])
set_c == wrapped(call.j.v, self.shape[2])
set_x == call.x.a[1][1]

\* C1: after any sequence of element writes and bulk writes of scalars,
\* every row's column list is strictly increasing (so without duplicates)
\* and its value list is as long as its column list.
C1_RowsSorted ==
  \A r \in 1..Len(now.rows) :
    /\ Len(now.data[r]) = Len(now.rows[r])
    /\ \A k \in 1..(Len(now.rows[r]) - 1) : now.rows[r][k] < now.rows[r][k + 1]

\* A bulk write of a nonzero scalar to the columns [E-1, 0], in that order,
\* has filled a row that was empty.
C1_Witness ==
  /\ call.op = "setitem" /\ call.err = "ok"
  /\ call.j.t = "arr" /\ call.j.a = <<<<1, 0>>>>
  /\ \E r \in 1..Len(now.rows) :
       call.pre.rows[r] = <<>> /\ Len(now.rows[r]) = 2

\* C2: no row ever stores a zero; set(i, j, 0) for a valid (i, j) removes the
\* entry at (i, j) when one is stored (that row gets shorter by one, the other
\* rows stay) and changes nothing otherwise, and get(i, j) then returns zero.
C2_ZeroRemoves ==
  /\ \A r \in 1..Len(now.rows) : \A k \in 1..Len(now.data[r]) : now.data[r][k] # 0
  /\ (is_set /\ set_x = 0) =>
       /\ call.err = "ok"
       /\ IF stored(call.pre, set_r, set_c)
          THEN /\ Len(now.rows[set_r + 1]) = Len(call.pre.rows[set_r + 1]) - 1
               /\ Len(now.data[set_r + 1]) = Len(call.pre.data[set_r + 1]) - 1
               /\ ~stored(now, set_r, set_c)
               /\ \A r \in 1..Len(now.rows) :
                    r # set_r + 1 => /\ now.rows[r] = call.pre.rows[r]
                                     /\ now.data[r] = call.pre.data[r]
          ELSE now = call.pre
       /\ __getitem__(now, call.i, call.j)
            = [kind |-> "scalar", v |-> 0, a |-> <<>>, err |-> "ok"]

\* set(i, j, 0) has removed an entry of a row that held two.
C2_Witness ==
  /\ is_set /\ set_x = 0
  /\ stored(call.pre, set_r, set_c)
  /\ Len(call.pre.rows[set_r + 1]) = 2

\* C3: right after set(i, j, x) with a nonzero x and a valid (i, j), negative
\* indices included, get(i, j) returns x, for an insert and for an overwrite.
C3_SetThenGet ==
  (is_set /\ set_x # 0) =>
    /\ call.err = "ok"
    /\ __getitem__(now, call.i, call.j)
         = [kind |-> "scalar", v |-> set_x, a |-> <<>>, err |-> "ok"]

\* set(i, j, x) with negative i and j has overwritten a stored value.
C3_Witness ==
  /\ is_set /\ set_x # 0
  /\ call.i.v < 0 /\ call.j.v < 0
  /\ stored(call.pre, set_r, set_c)
  /\ value_at(call.pre, set_r, set_c) # set_x

\* C4: tocsr() gives indptr of length M + 1 with indptr[0] = 0 and
\* indptr[i+1] = indptr[i] + len(rows[i]), indices the rows' column lists one
\* after the other, data the value lists aligned with them, and leaves the
\* matrix as it was.
C4_CompressedRows ==
  call.op = "tocsr" =>
    LET o == call.out
        M == self.shape[1]
    IN /\ Len(o.indptr) = M + 1
       /\ o.indptr[1] = 0
       /\ \A i \in 1..M : o.indptr[i + 1] = o.indptr[i] + Len(now.rows[i])
       /\ Len(o.indices) = o.indptr[M + 1]
       /\ Len(o.data) = o.indptr[M + 1]
       /\ \A i \in 1..M : \A k \in 1..Len(now.rows[i]) :
            /\ o.indices[o.indptr[i] + k] = now.rows[i][k]
            /\ o.data[o.indptr[i] + k] = now.data[i][k]
       /\ now = call.pre

\* tocsr() of a matrix whose first row holds two entries and whose second
\* row holds one.
C4_Witness ==
  /\ call.op = "tocsr"
  /\ Len(now.rows) = 2
  /\ Len(now.rows[1]) = 2 /\ Len(now.rows[2]) = 1
  /\ call.out.indptr = <<0, 2, 3>>

\* The slices among the two parts of the index of the last read or write,
\* each with the extent of its axis.
slices_of_call ==
  IF call.op \in {"setitem", "getitem"}
  THEN {p \in {<<call.i, self.shape[1]>>, <<call.j, self.shape[2]>>} :
          p[1].t = "slice"}
  ELSE {}

\* C5: on a dimension of extent E a slice's negative start -k resolves to
\* E - k, a slice with step -1 and no bounds expands to E-1, ..., 0, and
\* every index a slice expands to lies in [0, E).
C5_SliceInRange ==
  \A p \in slices_of_call :
    LET s == p[1]
        E == p[2]
        seq == _slicetoseq(s, E)
    IN /\ (s.start # None /\ s.start[1] < 0 /\ s.stop = None /\ s.step = None)
            => (seq # <<>> /\ seq[1] = E + s.start[1])
       /\ (s.start = None /\ s.stop = None /\ s.step = Some(-1))
            => seq = [k \in 1..E |-> E - k]
       /\ \A k \in 1..Len(seq) : seq[k] >= 0 /\ seq[k] < E

\* C6: reshape(newShape) fails whenever the element count of newShape
\* differs from M x N; it returns no matrix then.
C6_ReshapeFails ==
  (call.op = "reshape"
     /\ call.shape[1] * call.shape[2] # self.shape[1] * self.shape[2])
    => call.out.err # "ok"

\* The sequence a slice denotes on a dimension of extent E by the rules of
\* Python's slice.indices: bounds count from the end when negative and are
\* clipped to the dimension.
Min2(a, b) == IF a <= b THEN a ELSE b

std_slice(s, E) ==
  LET step == IF s.step = None THEN 1 ELSE s.step[1]
      lo == IF step > 0 THEN 0 ELSE -1
      hi == IF step > 0 THEN E ELSE E - 1
      clip(b) == IF b < 0 THEN Max2(b + E, lo) ELSE Min2(b, hi)
      start == IF s.start = None THEN (IF step > 0 THEN lo ELSE hi)
               ELSE clip(s.start[1])
      stop == IF s.stop = None THEN (IF step > 0 THEN hi ELSE lo)
              ELSE clip(s.stop[1])
  IN range(start, stop, step)

\* The coordinates an index part names on a dimension of extent E.
std_coords(p, E) ==
  IF p.t = "slice"
  THEN {std_slice(p, E)[k] : k \in 1..Len(std_slice(p, E))}
  ELSE {wrapped(atleast_1d_ravel(p)[k], E) : k \in 1..Len(atleast_1d_ravel(p))}

\* An index part whose integers are all valid on a dimension of extent E.
valid_part(p, E) ==
  \/ p.t = "slice"
  \/ \A k \in 1..Len(atleast_1d_ravel(p)) :
       atleast_1d_ravel(p)[k] >= 0 - E /\ atleast_1d_ravel(p)[k] < E

\* C8: a write of a scalar through an index with a slice on at least one
\* axis sets exactly the coordinates of the outer product of the row
\* sequence and the column sequence to the scalar and leaves every other
\* coordinate as it was.
C8_OuterProduct ==
  (/\ call.op = "setitem"
   /\ call.i.t = "slice" \/ call.j.t = "slice"
   /\ call.x.k = "scalar"
   /\ valid_part(call.i, self.shape[1]) /\ valid_part(call.j, self.shape[2]))
  => /\ call.err = "ok"
     /\ \A r \in 0..(self.shape[1] - 1), c \in 0..(self.shape[2] - 1) :
          value_at(now, r, c) =
            IF r \in std_coords(call.i, self.shape[1])
               /\ c \in std_coords(call.j, self.shape[2])
            THEN set_x
            ELSE value_at(call.pre, r, c)

(***************************************************************************)
(* Writes of dense and sparse right-hand sides, the shortcut for a sparse  *)
(* x written to [:, :] among them.                                         *)
(***************************************************************************)

\* The array of the given shape that counts 0, 1, ... along its rows.
ramp(s) ==
  [r \in 1..s[1] |-> [c \in 1..s[2] |-> ((r - 1) * s[2] + c - 1) % (MaxVal + 1)]]

XArrays ==
  UNION {{full_of(s, MaxVal), ramp(s)} : s \in (1..MaxM) \X (1..MaxN)}

RhsInputs == {Dense(a) : a \in XArrays} \cup {SparseX(a) : a \in XArrays}

RhsIdxParts(E) ==
  {IntIdx(0), IntIdx(-1), SliceIdx(None, None, None),
   ArrIdx(<<<<0, E - 1>>>>, 1), ArrIdx(<<<<0>>, <<E - 1>>>>, 2)}

\* self[i, j] = x for a dense or sparse x.
SetItemRhs ==
  /\ call = idle
  /\ \E i \in RhsIdxParts(self.shape[1]), j \in RhsIdxParts(self.shape[2]),
        x \in RhsInputs :
       SetItemDone(setitem_object(heap, refs(self) \cup refs(other), self,
                                  i, j, x),
                   i, j, x)

NextRhs == SetItemRhs \/ Return

SpecRhs == Init /\ [][NextRhs]_vars

\* C9: a write that is not the shortcut broadcasts a sparse x as it does a
\* dense x: for x of shape (1, 1), of the index shape or of shape (1, cols)
\* the write leaves the matrix in the state that writing the dense array
\* with the same entries leaves it in.
C9_SparseAsDense ==
  (/\ call.op = "setitem"
   /\ call.x.k = "sparse"
   /\ ~is_full_assign(call.i, call.j, call.x))
  => now = __setitem__(call.pre, call.i, call.j, Dense(call.x.a)).mat

\* C10: the matrix always holds exactly M rows, and every stored column
\* index lies in [0, N).
C10_ShapeConsistent ==
  /\ Len(self.rows) = self.shape[1]
  /\ Len(self.data) = self.shape[1]
  /\ \A r \in 1..Len(now.rows) : \A k \in 1..Len(now.rows[r]) :
       now.rows[r][k] >= 0 /\ now.rows[r][k] < self.shape[2]

(***************************************************************************)
(* A second matrix made from self: other = lil_matrix(self, copy=cp).      *)
(* other.cp records the copy argument it was made with.                    *)
(***************************************************************************)
SharedShapes == {s \in Shapes : s[1] * s[2] <= MaxSharedCells}

\* The integers valid on a dimension of extent E, and the values written.
ValidInts(E) == {IntIdx(v) : v \in (0 - E)..(E - 1)}
SharedValues == 0..MaxSharedVal

InitShared == Init /\ self.shape \in SharedShapes

made(res, cp) ==
  [live |-> TRUE, shape |-> res.m.shape, rows |-> res.m.rows,
   data |-> res.m.data, cp |-> cp]

ConstructDone(res, cp) ==
  /\ other' = made(res, cp)
  /\ heap' = collect(res.h, self, made(res, cp))
  /\ call' = [op |-> "construct", copy |-> cp]
  /\ UNCHANGED self

\* other = lil_matrix(self, copy=cp)
Construct ==
  /\ call = idle
  /\ \E cp \in BOOLEAN :
       ConstructDone(construct_from(heap, refs(self) \cup refs(other), self, cp),
                     cp)

SetSelfDone(res, i, j, x) ==
  /\ self' = res.m
  /\ heap' = collect(res.h, res.m, other)
  /\ call' = [op |-> "setitem", on |-> "self", i |-> i, j |-> j, x |-> x,
              err |-> res.err, pre |-> deref(heap, self),
              pre_other |-> deref(heap, other)]
  /\ UNCHANGED other

\* self[i, j] = v
SetSelf ==
  /\ call = idle
  /\ \E i \in ValidInts(self.shape[1]), j \in ValidInts(self.shape[2]),
        v \in SharedValues :
       SetSelfDone(setitem_object(heap, refs(self) \cup refs(other), self,
                                  i, j, Scalar(v)),
                   i, j, Scalar(v))

SetOtherDone(res, i, j, x) ==
  /\ other' = res.m
  /\ heap' = collect(res.h, self, res.m)
  /\ call' = [op |-> "setitem", on |-> "other", i |-> i, j |-> j, x |-> x,
              err |-> res.err, pre |-> deref(heap, self),
              pre_other |-> deref(heap, other)]
  /\ UNCHANGED self

\* other[i, j] = v
SetOther ==
  /\ call = idle
  /\ other.live
  /\ \E i \in ValidInts(other.shape[1]), j \in ValidInts(other.shape[2]),
        v \in SharedValues :
       SetOtherDone(setitem_object(heap, refs(self) \cup refs(other), other,
                                   i, j, Scalar(v)),
                    i, j, Scalar(v))

NextShared == Construct \/ SetSelf \/ SetOther \/ Return

SpecShared == InitShared /\ [][NextShared]_vars

\* What get(i, j) returns for every valid (i, j) of the matrix value m.
all_gets(m) ==
  [c \in (0..(m.shape[1] - 1)) \X (0..(m.shape[2] - 1)) |->
     __getitem__(m, IntIdx(c[1]), IntIdx(c[2]))]

\* The last call was a set on one of the two matrices, and it left every
\* get(i, j) of the other matrix as it was.
set_kept_apart ==
  IF call.on = "self"
  THEN all_gets(deref(heap, other)) = all_gets(call.pre_other)
  ELSE all_gets(deref(heap, self)) = all_gets(call.pre)

\* C7 as stated: a matrix constructed from another LIL matrix, with any
\* copy setting, shares nothing with it: a set on either leaves every
\* get(i, j) of the other unchanged.
C7_NeverAliased ==
  (call.op = "setitem" /\ other.live) => set_kept_apart

\* C7 amended: a matrix constructed with copy=True shares nothing with its
\* source, so a set on either leaves every get(i, j) of the other
\* unchanged; one constructed with the default copy=False holds the lists of
\* its source, so the two read the same after every set.
C7_CopyNotAliased ==
  (call.op = "setitem" /\ other.live) =>
    IF other.cp
    THEN set_kept_apart /\ refs(other) \cap refs(self) = {}
    ELSE all_gets(deref(heap, other)) = all_gets(deref(heap, self))

\* A set of a nonzero value on a matrix whose copy=True copy differs from it
\* afterwards.
C7_Witness ==
  /\ call.op = "setitem" /\ call.err = "ok" /\ call.x.a[1][1] # 0
  /\ other.live /\ other.cp
  /\ deref(heap, other) # deref(heap, self)
  /\ deref(heap, self) # call.pre

====
